---- MODULE Spec2Model ----
(***************************************************************************)
(* Model of Serial_Communication_and_Non-Volatile_Memory.cpp: four button *)
(* interrupt handlers (GetTime, DisplayTimes, ValueCycle, ValueIncrement)  *)
(* that preempt the main FSM loop between any two of its statements, the   *)
(* real-time clock, the two-slot EEPROM log and the C library's shared     *)
(* broken-down-time buffer.  Time values are time_t seconds; buffers are   *)
(* sequences of byte values.  The LCD is write-only and is not modelled.   *)
(***************************************************************************)
EXTENDS Integers, Sequences, FiniteSets, TLC

\* ------------------------------------------------------------- bounds
MaxPresses == 4        \* button events in one behaviour of Spec
MaxTicks == 1          \* one-second advances of the RTC in one behaviour
MaxWrapPresses == 60   \* IncrementPressed events in one behaviour of SpecWrap

\* ------------------------------------------------- program constants
EEPROM_ADDR_1 == 0
EEPROM_ADDR_2 == 20
SlotSize == 20
EepromSize == EEPROM_ADDR_2 + SlotSize
HourModulus == 24
MinuteModulus == 60
SecondModulus == 60
\* set_time(mktime(&t)) with t = {0}, tm_year = 125: tm_mday = 0 normalises
\* to 2024-12-31 00:00:00, a midnight.
BootTime == 1735603200

DISPLAY_TIME == "DISPLAY_TIME"
SAVE_TIME == "SAVE_TIME"
PREV_TIMES == "PREV_TIMES"
SET_TIME == "SET_TIME"
SystemState == {DISPLAY_TIME, SAVE_TIME, PREV_TIMES, SET_TIME}

VARIABLES
    state,          \* SystemState state
    timeIsDirty,    \* bool timeIsDirty
    selectedField,  \* int selectedField
    rawTime,        \* time_t rawTime
    selectedTime,   \* time_t selectedTime
    prevTime1,      \* char prevTime1[20]
    prevTime2,      \* char prevTime2[20]
    rtc,            \* the live clock read by time() and set by set_time()
    eeprom,         \* the EEPROM's bytes 0..39
    tmbuf,          \* the static struct tm that localtime() returns
    timebuff,       \* SaveTime's local char timebuff[20]
    pc,             \* the main loop's position
    \* history variables (not program state)
    presses,        \* number of button events so far
    ticks,          \* number of clock advances so far
    logPresses,     \* number of LogPressed events so far
    lastPress,      \* the last button event and the mode it found
    saved,          \* the values SaveTime wrote to offset 0, in order
    bootMostRecent, \* the content of offset 0 at boot
    pendingCommits, \* sessions left and not yet followed by a set_time
    sessionStart,   \* selectedTime when the current edit session was created
    cycleRun,       \* selectedField before each of the last consecutive
                    \* CyclePressed events that found SET_TIME
    sessionEdits    \* IncrementPressed events that found SET_TIME, this session

progVars == <<state, timeIsDirty, selectedField, rawTime, selectedTime,
              prevTime1, prevTime2, rtc, eeprom, tmbuf, timebuff, pc>>
histVars == <<presses, ticks, logPresses, lastPress, saved, bootMostRecent,
              pendingCommits, sessionStart, cycleRun,
                sessionEdits>>
vars == <<progVars, histVars>>

\* ------------------------------------------------------- C library
\* localtime(): time_t -> broken-down time (no time zone on the target).
\* day stands for tm_year/tm_mon/tm_mday.
localtime(t) ==
    [day  |-> t \div 86400,
     hour |-> (t % 86400) \div 3600,
     min  |-> (t % 3600) \div 60,
     sec  |-> t % 60]

\* mktime(): broken-down time -> time_t.
mktime(tm) ==
    tm.day * 86400 + tm.hour * 3600 + tm.min * 60 + tm.sec

\* "%02d" of a field value 0..99: two ASCII digits.
TwoDigits(n) == <<48 + (n \div 10), 48 + (n % 10)>>

\* sprintf(buf, "%02d:%02d:%02d", h, m, s): 8 characters and the
\* terminating NUL; the bytes of buf after them are left as they were.
sprintfTime(buf, tm) ==
    LET text == TwoDigits(tm.hour) \o <<58>> \o TwoDigits(tm.min)
                    \o <<58>> \o TwoDigits(tm.sec) \o <<0>>
    IN  [i \in 1..Len(buf) |-> IF i <= Len(text) THEN text[i] ELSE buf[i]]

\* --------------------------------------------------------- EEPROM
\* EEPROM::Write: size bytes of data stored from eeaddress on.
EepromWrite(mem, eeaddress, data, size) ==
    [a \in DOMAIN mem |->
        IF a >= eeaddress /\ a < eeaddress + size
        THEN data[a - eeaddress + 1] ELSE mem[a]]

\* EEPROM::Read: the size bytes stored from eeaddress on.
EepromRead(mem, eeaddress, size) ==
    [i \in 1..size |-> mem[eeaddress + i - 1]]

Fill(b) == [i \in 1..SlotSize |-> b]
\* What an uninitialised stack buffer may hold (sampled).
StackBytes == {0, 170}
\* A formatted entry as an earlier run left it in the EEPROM.
OldEntry(t) == sprintfTime(Fill(0), localtime(t))
BootSlots ==
    { <<Fill(255), Fill(255)>>,
      <<OldEntry(BootTime + 45296), OldEntry(BootTime + 3723)>> }

NoPress == [e |-> "none", from |-> DISPLAY_TIME]

Init ==
    /\ state = DISPLAY_TIME
    /\ timeIsDirty = FALSE
    /\ selectedField = 0
    /\ rawTime = 0
    /\ selectedTime = 0
    /\ prevTime1 = Fill(0)
    /\ prevTime2 = Fill(0)
    /\ rtc = BootTime
    /\ \E s \in BootSlots :
          /\ eeprom = [a \in 0..(EepromSize - 1) |->
                          IF a < EEPROM_ADDR_2 THEN s[1][a + 1]
                          ELSE s[2][a - EEPROM_ADDR_2 + 1]]
          /\ bootMostRecent = s[1]
    /\ tmbuf = localtime(0)
    /\ timebuff = Fill(0)
    /\ pc = "test_dirty"
    /\ presses = 0
    /\ ticks = 0
    /\ logPresses = 0
    /\ lastPress = NoPress
    /\ saved = <<>>
    /\ pendingCommits = <<>>
    /\ sessionStart = 0
    /\ cycleRun = <<>>
    /\ sessionEdits = 0

\* ---------------------------------------------- interrupt handlers
\* Each handler runs to completion: the four interrupts share one priority
\* on the single core, and the main loop resumes only after the handler.

Pressed(e) ==
    /\ presses' = presses + 1
    /\ lastPress' = [e |-> e, from |-> state]
    /\ logPresses' = IF e = "LogPressed" THEN logPresses + 1 ELSE logPresses
    /\ pendingCommits' =
          IF state = SET_TIME /\ e \in {"LogPressed", "TogglePressed"}
          THEN Append(pendingCommits, [value |-> selectedTime, by |-> e])
          ELSE pendingCommits
    /\ UNCHANGED <<ticks, saved, bootMostRecent>>

\* GetTime committing the edit itself instead of flagging it.
GetTimeCommitsInHandler ==
    /\ rtc' = IF state = SET_TIME THEN selectedTime ELSE rtc
    /\ timeIsDirty' = timeIsDirty
    /\ state' = SAVE_TIME
    /\ UNCHANGED <<selectedField, rawTime, selectedTime, prevTime1, prevTime2,
                   eeprom, tmbuf, timebuff, pc>>

\* void GetTime()
GetTimeCode ==
    /\ timeIsDirty' = IF state = SET_TIME THEN TRUE ELSE timeIsDirty
    /\ state' = SAVE_TIME
    /\ UNCHANGED <<selectedField, rawTime, selectedTime, prevTime1, prevTime2,
                   rtc, eeprom, tmbuf, timebuff, pc>>

\* DisplayTimes toggling on DISPLAY_TIME instead of on PREV_TIMES.
DisplayTimesTogglesOnIdle ==
    /\ timeIsDirty' = IF state = SET_TIME THEN TRUE ELSE timeIsDirty
    /\ state' = IF state = DISPLAY_TIME THEN PREV_TIMES ELSE DISPLAY_TIME
    /\ UNCHANGED <<selectedField, rawTime, selectedTime, prevTime1, prevTime2,
                   rtc, eeprom, tmbuf, timebuff, pc>>

\* void DisplayTimes()
DisplayTimesCode ==
    /\ timeIsDirty' = IF state = SET_TIME THEN TRUE ELSE timeIsDirty
    /\ state' = IF state # PREV_TIMES THEN PREV_TIMES ELSE DISPLAY_TIME
    /\ UNCHANGED <<selectedField, rawTime, selectedTime, prevTime1, prevTime2,
                   rtc, eeprom, tmbuf, timebuff, pc>>

\* The branch ValueCycle and ValueIncrement share: state != SET_TIME.
StartEditing ==
    /\ state' = SET_TIME
    /\ selectedTime' = rawTime
    /\ selectedField' = 0

\* ValueCycle advancing the field without the wrap to the hour.
ValueCycleNoWrap ==
    /\ IF state # SET_TIME
       THEN StartEditing
       ELSE /\ selectedField' = selectedField + 1
            /\ UNCHANGED <<state, selectedTime>>
    /\ UNCHANGED <<timeIsDirty, rawTime, prevTime1, prevTime2, rtc, eeprom,
                   tmbuf, timebuff, pc>>

\* void ValueCycle()
ValueCycleCode ==
    /\ IF state # SET_TIME
       THEN StartEditing
       ELSE /\ selectedField' = (selectedField + 1) % 3
            /\ UNCHANGED <<state, selectedTime>>
    /\ UNCHANGED <<timeIsDirty, rawTime, prevTime1, prevTime2, rtc, eeprom,
                   tmbuf, timebuff, pc>>

\* IncrementField with a 12-hour wrap of the hour.
IncrementFieldTwelveHours(tm, field) ==
    IF field = 0 THEN [tm EXCEPT !.hour = (tm.hour + 1) % 12]
    ELSE IF field = 1 THEN [tm EXCEPT !.min = (tm.min + 1) % MinuteModulus]
    ELSE [tm EXCEPT !.sec = (tm.sec + 1) % SecondModulus]

\* The field arithmetic of ValueIncrement on the struct tm localtime returned.
IncrementField(tm, field) ==
    IF field = 0 THEN [tm EXCEPT !.hour = (tm.hour + 1) % HourModulus]
    ELSE IF field = 1 THEN [tm EXCEPT !.min = (tm.min + 1) % MinuteModulus]
    ELSE [tm EXCEPT !.sec = (tm.sec + 1) % SecondModulus]

\* ValueIncrement applying the increment on the press that opens the session.
ValueIncrementOnEntry ==
    /\ IF state # SET_TIME
       THEN LET timeInfo == IncrementField(localtime(rawTime), 0)
            IN  /\ state' = SET_TIME
                /\ selectedField' = 0
                /\ selectedTime' = mktime(timeInfo)
                /\ tmbuf' = localtime(mktime(timeInfo))
       ELSE LET timeInfo == IncrementField(localtime(selectedTime), selectedField)
            IN  /\ selectedTime' = mktime(timeInfo)
                /\ tmbuf' = localtime(mktime(timeInfo))
                /\ UNCHANGED <<state, selectedField>>
    /\ UNCHANGED <<timeIsDirty, rawTime, prevTime1, prevTime2, rtc, eeprom,
                   timebuff, pc>>

\* void ValueIncrement()
ValueIncrementCode ==
    /\ IF state # SET_TIME
       THEN /\ StartEditing
            /\ UNCHANGED tmbuf
       ELSE LET timeInfo == IncrementField(localtime(selectedTime), selectedField)
            IN  /\ selectedTime' = mktime(timeInfo)
                /\ tmbuf' = localtime(mktime(timeInfo))
                /\ UNCHANGED <<state, selectedField>>
    /\ UNCHANGED <<timeIsDirty, rawTime, prevTime1, prevTime2, rtc, eeprom,
                   timebuff, pc>>

GetTime ==
    /\ GetTimeCode
    /\ Pressed("LogPressed")
    /\ cycleRun' = <<>>
    /\ UNCHANGED <<sessionStart, sessionEdits>>

DisplayTimes ==
    /\ DisplayTimesCode
    /\ Pressed("TogglePressed")
    /\ cycleRun' = <<>>
    /\ UNCHANGED <<sessionStart, sessionEdits>>

ValueCycle ==
    /\ ValueCycleCode
    /\ Pressed("CyclePressed")
    /\ sessionStart' = IF state # SET_TIME THEN selectedTime' ELSE sessionStart
    /\ sessionEdits' = IF state # SET_TIME THEN 0 ELSE sessionEdits
    /\ cycleRun' = IF state # SET_TIME THEN <<>>
                   ELSE IF Len(cycleRun) < 3 THEN Append(cycleRun, selectedField)
                   ELSE Append(Tail(cycleRun), selectedField)

ValueIncrement ==
    /\ ValueIncrementCode
    /\ Pressed("IncrementPressed")
    /\ sessionStart' = IF state # SET_TIME THEN selectedTime' ELSE sessionStart
    /\ sessionEdits' = IF state # SET_TIME THEN 0 ELSE sessionEdits + 1
    /\ cycleRun' = <<>>

\* The RTC advances by one second.
Tick ==
    /\ rtc' = rtc + 1
    /\ ticks' = ticks + 1
    /\ UNCHANGED <<state, timeIsDirty, selectedField, rawTime, selectedTime,
                   prevTime1, prevTime2, eeprom, tmbuf, timebuff, pc>>
    /\ UNCHANGED <<presses, logPresses, lastPress, saved, bootMostRecent,
                   pendingCommits, sessionStart, cycleRun,
                sessionEdits>>

\* ------------------------------------------------------- main loop
\* One action per statement of main's while (1) and of the function the
\* switch calls; a handler or a clock advance may run between any two.
\* thread_sleep_for(100) touches no state: it is folded into the last
\* statement of the mode's function, which leads back to the loop head.

NoHistory ==
    UNCHANGED <<presses, ticks, logPresses, lastPress, saved, bootMostRecent,
                pendingCommits, sessionStart, cycleRun,
                sessionEdits>>

\* if (timeIsDirty)
TestDirty ==
    /\ pc = "test_dirty"
    /\ pc' = IF timeIsDirty THEN "set_time" ELSE "switch"
    /\ UNCHANGED <<state, timeIsDirty, selectedField, rawTime, selectedTime,
                   prevTime1, prevTime2, rtc, eeprom, tmbuf, timebuff>>
    /\ NoHistory

\* The commit setting the clock from rawTime instead of selectedTime.
CommitTimeFromRawTime ==
    /\ pc = "set_time"
    /\ rtc' = rawTime
    /\ pc' = "clear_dirty"
    /\ pendingCommits' = <<>>
    /\ UNCHANGED <<state, timeIsDirty, selectedField, rawTime, selectedTime,
                   prevTime1, prevTime2, eeprom, tmbuf, timebuff>>
    /\ UNCHANGED <<presses, ticks, logPresses, lastPress, saved,
                   bootMostRecent, sessionStart, cycleRun,
                   sessionEdits>>

\* set_time(selectedTime);
CommitTime ==
    /\ pc = "set_time"
    /\ rtc' = selectedTime
    /\ pc' = "clear_dirty"
    /\ pendingCommits' = <<>>
    /\ UNCHANGED <<state, timeIsDirty, selectedField, rawTime, selectedTime,
                   prevTime1, prevTime2, eeprom, tmbuf, timebuff>>
    /\ UNCHANGED <<presses, ticks, logPresses, lastPress, saved,
                   bootMostRecent, sessionStart, cycleRun,
                   sessionEdits>>

\* timeIsDirty = false;
ClearDirty ==
    /\ pc = "clear_dirty"
    /\ timeIsDirty' = FALSE
    /\ pc' = "switch"
    /\ UNCHANGED <<state, selectedField, rawTime, selectedTime, prevTime1,
                   prevTime2, rtc, eeprom, tmbuf, timebuff>>
    /\ NoHistory

\* switch (state): the call of the mode's function.  SaveTime's local
\* timebuff starts with whatever the stack holds.
Dispatch ==
    /\ pc = "switch"
    /\ pc' = CASE state = DISPLAY_TIME -> "show_time"
               [] state = SAVE_TIME    -> "save_read"
               [] state = PREV_TIMES   -> "prev_read1"
               [] state = SET_TIME     -> "set_render"
    /\ IF state = SAVE_TIME
       THEN \E g \in StackBytes : timebuff' = Fill(g)
       ELSE UNCHANGED timebuff
    /\ UNCHANGED <<state, timeIsDirty, selectedField, rawTime, selectedTime,
                   prevTime1, prevTime2, rtc, eeprom, tmbuf>>
    /\ NoHistory

\* ShowTime: time(&rawTime);
ShowTimeRead ==
    /\ pc = "show_time"
    /\ rawTime' = rtc
    /\ pc' = "show_render"
    /\ UNCHANGED <<state, timeIsDirty, selectedField, selectedTime, prevTime1,
                   prevTime2, rtc, eeprom, tmbuf, timebuff>>
    /\ NoHistory

\* ShowTime: localtime(&rawTime), sprintf and the LCD calls.
ShowTimeRender ==
    /\ pc = "show_render"
    /\ tmbuf' = localtime(rawTime)
    /\ pc' = "test_dirty"
    /\ UNCHANGED <<state, timeIsDirty, selectedField, rawTime, selectedTime,
                   prevTime1, prevTime2, rtc, eeprom, timebuff>>
    /\ NoHistory

\* ShowPreviousTimes: EEPROM::Read(EEPROM_ADDR, EEPROM_ADDR_1, prevTime1, 20);
ShowPreviousRead1 ==
    /\ pc = "prev_read1"
    /\ prevTime1' = EepromRead(eeprom, EEPROM_ADDR_1, SlotSize)
    /\ pc' = "prev_read2"
    /\ UNCHANGED <<state, timeIsDirty, selectedField, rawTime, selectedTime,
                   prevTime2, rtc, eeprom, tmbuf, timebuff>>
    /\ NoHistory

\* ShowPreviousTimes: EEPROM::Read(EEPROM_ADDR, EEPROM_ADDR_2, prevTime2, 20);
\* and the LCD calls.
ShowPreviousRead2 ==
    /\ pc = "prev_read2"
    /\ prevTime2' = EepromRead(eeprom, EEPROM_ADDR_2, SlotSize)
    /\ pc' = "test_dirty"
    /\ UNCHANGED <<state, timeIsDirty, selectedField, rawTime, selectedTime,
                   prevTime1, rtc, eeprom, tmbuf, timebuff>>
    /\ NoHistory

\* SetTime: localtime(&selectedTime), sprintf and the LCD calls.
SetTimeRender ==
    /\ pc = "set_render"
    /\ tmbuf' = localtime(selectedTime)
    /\ pc' = "test_dirty"
    /\ UNCHANGED <<state, timeIsDirty, selectedField, rawTime, selectedTime,
                   prevTime1, prevTime2, rtc, eeprom, timebuff>>
    /\ NoHistory

\* SaveRead reading the wrong slot: EEPROM_ADDR_2 for EEPROM_ADDR_1.
SaveReadWrongSlot ==
    /\ pc = "save_read"
    /\ prevTime1' = EepromRead(eeprom, EEPROM_ADDR_2, SlotSize)
    /\ pc' = "save_time"
    /\ UNCHANGED <<state, timeIsDirty, selectedField, rawTime, selectedTime,
                   prevTime2, rtc, eeprom, tmbuf, timebuff>>
    /\ NoHistory

\* SaveTime: EEPROM::Read(EEPROM_ADDR, EEPROM_ADDR_1, prevTime1, 20);
SaveRead ==
    /\ pc = "save_read"
    /\ prevTime1' = EepromRead(eeprom, EEPROM_ADDR_1, SlotSize)
    /\ pc' = "save_time"
    /\ UNCHANGED <<state, timeIsDirty, selectedField, rawTime, selectedTime,
                   prevTime2, rtc, eeprom, tmbuf, timebuff>>
    /\ NoHistory

\* SaveTime: time(&rawTime);
SaveClock ==
    /\ pc = "save_time"
    /\ rawTime' = rtc
    /\ pc' = "save_localtime"
    /\ UNCHANGED <<state, timeIsDirty, selectedField, selectedTime, prevTime1,
                   prevTime2, rtc, eeprom, tmbuf, timebuff>>
    /\ NoHistory

\* SaveTime: struct tm* timeinfo = localtime(&rawTime);
SaveLocaltime ==
    /\ pc = "save_localtime"
    /\ tmbuf' = localtime(rawTime)
    /\ pc' = "save_sprintf"
    /\ UNCHANGED <<state, timeIsDirty, selectedField, rawTime, selectedTime,
                   prevTime1, prevTime2, rtc, eeprom, timebuff>>
    /\ NoHistory

\* SaveTime: sprintf(timebuff, "%02d:%02d:%02d", timeinfo->...);
SaveSprintf ==
    /\ pc = "save_sprintf"
    /\ timebuff' = sprintfTime(timebuff, tmbuf)
    /\ pc' = "save_write2"
    /\ UNCHANGED <<state, timeIsDirty, selectedField, rawTime, selectedTime,
                   prevTime1, prevTime2, rtc, eeprom, tmbuf>>
    /\ NoHistory

\* SaveTime: EEPROM::Write(EEPROM_ADDR, EEPROM_ADDR_2, prevTime1, 20);
SaveWritePrevious ==
    /\ pc = "save_write2"
    /\ eeprom' = EepromWrite(eeprom, EEPROM_ADDR_2, prevTime1, SlotSize)
    /\ pc' = "save_write1"
    /\ UNCHANGED <<state, timeIsDirty, selectedField, rawTime, selectedTime,
                   prevTime1, prevTime2, rtc, tmbuf, timebuff>>
    /\ NoHistory

\* SaveTime: EEPROM::Write(EEPROM_ADDR, EEPROM_ADDR_1, timebuff, 20);
SaveWriteMostRecent ==
    /\ pc = "save_write1"
    /\ eeprom' = EepromWrite(eeprom, EEPROM_ADDR_1, timebuff, SlotSize)
    /\ pc' = "save_done"
    /\ saved' = Append(saved, timebuff)
    /\ UNCHANGED <<state, timeIsDirty, selectedField, rawTime, selectedTime,
                   prevTime1, prevTime2, rtc, tmbuf, timebuff>>
    /\ UNCHANGED <<presses, ticks, logPresses, lastPress, bootMostRecent,
                   pendingCommits, sessionStart, cycleRun,
                sessionEdits>>

\* SaveTime: state = DISPLAY_TIME; and the return (timebuff goes out of scope).
SaveDone ==
    /\ pc = "save_done"
    /\ state' = DISPLAY_TIME
    /\ timebuff' = Fill(0)
    /\ pc' = "test_dirty"
    /\ UNCHANGED <<timeIsDirty, selectedField, rawTime, selectedTime,
                   prevTime1, prevTime2, rtc, eeprom, tmbuf>>
    /\ NoHistory

SaveTimePcs == {"save_read", "save_time", "save_localtime", "save_sprintf",
                "save_write2", "save_write1", "save_done"}

MainLoop ==
    \/ TestDirty
    \/ CommitTime
    \/ ClearDirty
    \/ Dispatch
    \/ ShowTimeRead
    \/ ShowTimeRender
    \/ ShowPreviousRead1
    \/ ShowPreviousRead2
    \/ SetTimeRender
    \/ SaveRead
    \/ SaveClock
    \/ SaveLocaltime
    \/ SaveSprintf
    \/ SaveWritePrevious
    \/ SaveWriteMostRecent
    \/ SaveDone

\* The falling edges the handlers are attached to, and the clock's advance.
LogPressed == presses < MaxPresses /\ GetTime
TogglePressed == presses < MaxPresses /\ DisplayTimes
CyclePressed == presses < MaxPresses /\ ValueCycle
IncrementPressed == presses < MaxPresses /\ ValueIncrement
ClockTick == ticks < MaxTicks /\ Tick

Next ==
    \/ MainLoop
    \/ LogPressed
    \/ TogglePressed
    \/ CyclePressed
    \/ IncrementPressed
    \/ ClockTick

Spec == Init /\ [][Next]_vars

\* The main loop never blocks: every statement it reaches is executed.
FairSpec == Spec /\ WF_vars(MainLoop)

\* Field arithmetic alone: an edit session on a sampled clock value, with a
\* field selected, and nothing but IncrementPressed events.
WrapStarts ==
    { BootTime + h * 3600 + m * 60 + sec :
        h \in 0..23, m \in {0, 29, 59}, sec \in {0, 30, 59} }

InitWrap ==
    /\ state = SET_TIME
    /\ timeIsDirty = FALSE
    /\ selectedField \in 0..2
    /\ \E t \in WrapStarts :
          /\ rawTime = t
          /\ selectedTime = t
          /\ sessionStart = t
          /\ rtc = t
          /\ tmbuf = localtime(t)
    /\ prevTime1 = Fill(0)
    /\ prevTime2 = Fill(0)
    /\ eeprom = [a \in 0..(EepromSize - 1) |-> 255]
    /\ bootMostRecent = Fill(255)
    /\ timebuff = Fill(0)
    /\ pc = "test_dirty"
    /\ presses = 0
    /\ ticks = 0
    /\ logPresses = 0
    /\ lastPress = [e |-> "CyclePressed", from |-> SET_TIME]
    /\ saved = <<>>
    /\ pendingCommits = <<>>
    /\ cycleRun = <<>>
    /\ sessionEdits = 0

IncrementPressedWrap == presses < MaxWrapPresses /\ ValueIncrement

SpecWrap == InitWrap /\ [][IncrementPressedWrap]_vars

TypeOK ==
    /\ state \in SystemState
    /\ timeIsDirty \in BOOLEAN
    /\ selectedField \in 0..2
    /\ pc \in {"test_dirty", "set_time", "clear_dirty", "switch", "show_time",
               "show_render", "prev_read1", "prev_read2", "set_render"}
              \cup SaveTimePcs

\* ---------------------------------------------------------- claims
mostRecent == EepromRead(eeprom, EEPROM_ADDR_1, SlotSize)
previous == EepromRead(eeprom, EEPROM_ADDR_2, SlotSize)
InSaveTime == pc \in SaveTimePcs
LogEditPending ==
    \E i \in DOMAIN pendingCommits : pendingCommits[i].by = "LogPressed"

\* C1: outside a running SaveTime, offset 0 holds the last value SaveTime
\* wrote and offset 20 the one written before it; after a single save,
\* offset 20 holds what offset 0 held at boot.
C1_LogRotation ==
    ~InSaveTime =>
        /\ Len(saved) >= 1 => mostRecent = saved[Len(saved)]
        /\ Len(saved) >= 2 => previous = saved[Len(saved) - 1]
        /\ Len(saved) = 1 => previous = bootMostRecent

\* Two saves of different values have completed, with button events between.
C1_Witness ==
    /\ ~InSaveTime
    /\ Len(saved) = 2
    /\ saved[1] # saved[2]
    /\ saved[1] # bootMostRecent
    /\ presses > 2

\* C2: when the main loop enters SaveTime, no edit that a LogPressed left
\* is still uncommitted: the commit precedes the Persisting action.
C2_CommitBeforePersist ==
    [][(pc = "switch" /\ pc' = "save_read") => ~LogEditPending]_vars

\* C3: a CyclePressed or IncrementPressed that finds a mode other than
\* SET_TIME sets selectedTime to the value the live clock has at that moment.
C3_SnapshotIsLiveClock ==
    [][(state # SET_TIME /\ state' = SET_TIME) => selectedTime' = rtc]_vars

\* C4: every set_time of the main loop commits exactly one left session,
\* with the selectedTime that session had when it was left.
C4_CommitOncePerSession ==
    [][(pc = "set_time" /\ pc' = "clear_dirty") =>
          /\ Len(pendingCommits) = 1
          /\ pendingCommits[1].value = selectedTime]_vars

\* C5: every LogPressed is persisted.  Only the dispatch on SAVE_TIME starts
\* a save and only LogPressed sets SAVE_TIME, so once the mode is no longer
\* SAVE_TIME and no SaveTime is running, a press without its save never gets
\* one: at such a point the saves must number at least the presses.
C5_EveryPressLogged ==
    (state # SAVE_TIME /\ ~InSaveTime) => Len(saved) >= logPresses

\* C6: the mode right after a handler follows the transition table, and the
\* handler sets timeIsDirty exactly when it finds SET_TIME and is GetTime
\* or DisplayTimes.
C6_TransitionTable ==
    [][presses' = presses + 1 =>
          LET e == lastPress'.e
          IN  /\ e = "LogPressed" => state' = SAVE_TIME
              /\ e = "TogglePressed" =>
                    state' = IF state = PREV_TIMES THEN DISPLAY_TIME
                             ELSE PREV_TIMES
              /\ e \in {"CyclePressed", "IncrementPressed"} => state' = SET_TIME
              /\ timeIsDirty' =
                    (timeIsDirty \/ (state = SET_TIME
                                     /\ e \in {"LogPressed", "TogglePressed"}))
      ]_vars

\* The fourth button event is a TogglePressed that has just left an edit
\* session: the mode is PREV_TIMES and timeIsDirty is set.
C6_Witness ==
    /\ lastPress = [e |-> "TogglePressed", from |-> SET_TIME]
    /\ state = PREV_TIMES
    /\ timeIsDirty
    /\ presses = 4

\* C7: the second of two consecutive TogglePressed events leaves the mode
\* DISPLAY_TIME when the first found DISPLAY_TIME or SET_TIME.
C7_ToggleRoundTrip ==
    [][(/\ presses' = presses + 1
        /\ lastPress'.e = "TogglePressed"
        /\ lastPress.e = "TogglePressed"
        /\ lastPress.from \in {DISPLAY_TIME, SET_TIME})
          => state' = DISPLAY_TIME]_vars

\* C8: in an edit session of IncrementPressed events alone, the fields stay
\* in range, and 24 events on the hour, or 60 on the minute or the second,
\* bring the field, and with it the whole working time, back to its start.
C8_FieldWraparound ==
    LET now == localtime(selectedTime)
        start == localtime(sessionStart)
    IN  /\ now.hour \in 0..23 /\ now.min \in 0..59 /\ now.sec \in 0..59
        /\ (selectedField = 0 /\ presses = HourModulus) =>
              now.hour = start.hour /\ selectedTime = sessionStart
        /\ (selectedField = 1 /\ presses = MinuteModulus) =>
              now.min = start.min /\ selectedTime = sessionStart
        /\ (selectedField = 2 /\ presses = SecondModulus) =>
              now.sec = start.sec /\ selectedTime = sessionStart

\* The hour has gone through 23 -> 0 and come back to an afternoon start.
C8_Witness ==
    /\ state = SET_TIME
    /\ selectedField = 0
    /\ presses = HourModulus
    /\ localtime(sessionStart).hour = 17
    /\ localtime(selectedTime).hour = 17

\* C9: an edit session in which no further button event fires is left by
\* the main loop.
C9_EditingTimesOut ==
    \A n \in 0..MaxPresses :
        (state = SET_TIME /\ presses = n) ~> (state # SET_TIME \/ presses # n)

\* C10: no handler changes the clock or the EEPROM; the clock is set only
\* by the main loop's set_time, reached only from a test that found
\* timeIsDirty; the EEPROM changes only in SaveTime's two writes.
C10_HandlersDefer ==
    [][/\ presses' # presses => (rtc' = rtc /\ eeprom' = eeprom)
       /\ (rtc' # rtc /\ ticks' = ticks) => pc = "set_time" /\ pc' = "clear_dirty"
       /\ (pc' = "set_time" /\ pc # "set_time") =>
              pc = "test_dirty" /\ timeIsDirty
       /\ eeprom' # eeprom => pc \in {"save_write2", "save_write1"}
      ]_vars

\* After a save, an edit left by LogPressed has been committed by the main
\* loop and has moved the clock.
C10_Witness ==
    /\ pc = "clear_dirty"
    /\ lastPress = [e |-> "LogPressed", from |-> SET_TIME]
    /\ rtc = selectedTime
    /\ rtc # BootTime + ticks
    /\ mostRecent # bootMostRecent

\* A step of a handler, and the event it served.
HandlerStep(e) == presses' = presses + 1 /\ lastPress'.e = e

\* C11: the main loop changes the mode only from SAVE_TIME to DISPLAY_TIME,
\* and the mode leaves SET_TIME only in a GetTime or DisplayTimes step,
\* which sets timeIsDirty.
C11_MainLoopKeepsMode ==
    [][/\ (presses' = presses /\ state' # state) =>
              (state = SAVE_TIME /\ state' = DISPLAY_TIME)
       /\ (state = SET_TIME /\ state' # SET_TIME) =>
              /\ HandlerStep("LogPressed") \/ HandlerStep("TogglePressed")
              /\ timeIsDirty'
      ]_vars

\* C12: when the main loop clears timeIsDirty, no edit session left by a
\* handler is still waiting for its set_time.
C12_DirtyNotLost ==
    [][(pc = "clear_dirty" /\ pc' = "switch") => pendingCommits = <<>>]_vars

\* C13: the text SaveTime has formatted, and goes on to write to offset 0,
\* is that of the clock value it read with time(&rawTime).
C13_TimestampIsClockRead ==
    pc \in {"save_write2", "save_write1"} =>
        timebuff = sprintfTime(timebuff, localtime(rawTime))

\* C14: a CyclePressed or IncrementPressed that finds a mode other than
\* SET_TIME only opens the session: the mode becomes SET_TIME, the hour is
\* selected, and selectedTime is the snapshot (rawTime) with no field
\* advanced; the shared struct tm is not touched.
C14_FirstPressOnlyOpens ==
    [][((HandlerStep("CyclePressed") \/ HandlerStep("IncrementPressed"))
            /\ state # SET_TIME) =>
          /\ state' = SET_TIME
          /\ selectedField' = 0
          /\ selectedTime' = rawTime
          /\ tmbuf' = tmbuf
      ]_vars

\* IncrementPressed has opened a session from the log view, on a clock
\* value the main loop had read, and nothing has been incremented.
C14_Witness ==
    /\ lastPress = [e |-> "IncrementPressed", from |-> PREV_TIMES]
    /\ state = SET_TIME
    /\ selectedField = 0
    /\ selectedTime = rawTime
    /\ rawTime >= BootTime

\* C16: while a session is open or left and not yet committed, selectedTime
\* changes only in an IncrementPressed step that finds SET_TIME, and such a
\* step changes the selected field alone.
C16_WorkingCopyIsolation ==
    [][/\ (selectedTime' # selectedTime
              /\ (state = SET_TIME \/ pendingCommits # <<>>)) =>
                 (HandlerStep("IncrementPressed") /\ state = SET_TIME)
       /\ (HandlerStep("IncrementPressed") /\ state = SET_TIME) =>
              LET old == localtime(selectedTime)
                  new == localtime(selectedTime')
              IN  /\ new.day = old.day
                  /\ selectedField # 0 => new.hour = old.hour
                  /\ selectedField # 1 => new.min = old.min
                  /\ selectedField # 2 => new.sec = old.sec
      ]_vars

\* The part of C16 about the clock and the main loop: no clock advance and
\* no main-loop statement changes selectedTime.
C16_MainLoopFrame ==
    [][presses' = presses => selectedTime' = selectedTime]_vars

\* C17: every value SaveTime wrote to offset 0 is 20 bytes: two digits, a
\* colon, two digits, a colon, two digits, then 12 bytes of zero or space.
C17_SlotEncoding ==
    \A k \in DOMAIN saved :
        /\ Len(saved[k]) = SlotSize
        /\ \A i \in {1, 2, 4, 5, 7, 8} : saved[k][i] \in 48..57
        /\ \A i \in {3, 6} : saved[k][i] = 58
        /\ \A i \in 9..SlotSize : saved[k][i] \in {0, 32}

\* C15: selectedField is always 0, 1 or 2; a CyclePressed that finds
\* SET_TIME moves it 0 -> 1 -> 2 -> 0 and changes neither selectedTime nor
\* the mode nor timeIsDirty; after three such events in a row, the selection
\* is the one the first of them found.
C15_FieldSelectionCyclic ==
    /\ selectedField \in 0..2
    /\ [][/\ selectedField' \in 0..2
          /\ (HandlerStep("CyclePressed") /\ state = SET_TIME) =>
                /\ selectedField' = CASE selectedField = 0 -> 1
                                      [] selectedField = 1 -> 2
                                      [] selectedField = 2 -> 0
                /\ selectedTime' = selectedTime
                /\ state' = state
                /\ timeIsDirty' = timeIsDirty
                /\ Len(cycleRun') = 3 => selectedField' = cycleRun'[1]
         ]_vars

\* Three CyclePressed events in a row in an edit session have brought the
\* selection from the hour through the minute and the second back.
C15_Witness ==
    /\ state = SET_TIME
    /\ cycleRun = <<0, 1, 2>>
    /\ selectedField = 0
    /\ lastPress = [e |-> "CyclePressed", from |-> SET_TIME]

\* C18: the main loop's set_time leaves the clock equal to selectedTime as
\* it is at that step; when the last event was the TogglePressed that left
\* a session without any increment, that is the snapshot taken at entry.
C18_CommitSetsClockToWorkingCopy ==
    [][(pc = "set_time" /\ pc' = "clear_dirty") =>
          /\ rtc' = selectedTime
          /\ (lastPress = [e |-> "TogglePressed", from |-> SET_TIME]
                 /\ sessionEdits = 0) => rtc' = sessionStart
      ]_vars

\* A session opened on a clock value the main loop had read was left by
\* TogglePressed without an increment; the clock had advanced meanwhile and
\* the commit has set it back to the snapshot.
C18_Witness ==
    /\ pc = "clear_dirty"
    /\ lastPress = [e |-> "TogglePressed", from |-> SET_TIME]
    /\ sessionEdits = 0
    /\ sessionStart = BootTime
    /\ ticks = 1
    /\ rtc = BootTime

====
